---------------------------- MODULE Spec2Model ----------------------------
(***************************************************************************)
(* Model of the signing core of avalanche-types:                           *)
(*   src/key/secp256k1/private_key.rs      (Key, load_cb58_keys)           *)
(*   src/key/secp256k1/kms/aws/eth_signer.rs (remote Signer)               *)
(*   examples/evm_contract_*.rs              (the relay protocol's callers) *)
(*                                                                         *)
(* Byte strings are sequences of 0..255, text is a sequence of one-        *)
(* character strings.  A call ends in one of three ways: Ok(v), Err(m)     *)
(* (an io::Result / Result error) or Panic(m) (an unwinding abort: a       *)
(* failed assert_eq!, an unwrap() of an Err, an overflowing conversion).   *)
(***************************************************************************)
EXTENDS Integers, Sequences, FiniteSets, TLC

VARIABLES
    kop,      \* Key API: name of the last operation ("none" before any)
    karg,     \* Key API: its argument (bytes, text, or a record)
    kres,     \* Key API: its outcome
    key,      \* Key API: the key held by the caller, NoKey when none
    lin,      \* load_cb58_keys: the call's arguments, NoCall when none
    lres,     \* load_cb58_keys: the call's outcome
    signer,   \* remote Signer value held by the caller, NoSigner when none
    sop,      \* remote Signer: name of the last operation
    sarg,     \* remote Signer: its argument
    scalls,   \* remote Signer: digests handed to the external signer by it
    sres,     \* remote Signer: its outcome
    pkA,      \* log run A: the private key
    pkB,      \* log run B: the private key
    outA,     \* log run A: text emitted so far
    outB,     \* log run B: text emitted so far
    rex,      \* relay: the example program running, "none" before it starts
    rpc,      \* relay: the statement main() has reached
    rin,      \* relay: what main() obtained before it builds the request
    relay_tx, \* relay: the request builder value (relay_tx / rr_tx)
    rop,      \* relay: the last operation applied to the request
    rsigs,    \* relay: the signatures produced for the request, in order
    signed,   \* relay: signed_bytes / no_gas_sig
    calldata, \* relay: relay_tx_calldata / gas_payer_calldata
    estimated_gas, \* relay: the chain's gas estimate
    submitted \* relay: what was handed to the submission layer

keyVars == << kop, karg, kres, key >>

loadVars == << lin, lres >>

signerVars == << signer, sop, sarg, scalls, sres >>

logVars == << pkA, pkB, outA, outB >>

relayVars == << rex, rpc, rin, relay_tx, rop, rsigs, signed, calldata,
               estimated_gas, submitted >>

vars == << kop, karg, kres, key, lin, lres, signer, sop, sarg, scalls, sres,
           pkA, pkB, outA, outB, rex, rpc, rin, relay_tx, rop, rsigs, signed,
           calldata, estimated_gas, submitted >>

-----------------------------------------------------------------------------
(* Outcomes of a call *)

Ok(v) == [tag |-> "Ok", val |-> v]

Err(m) == [tag |-> "Err", msg |-> m]

Panic(m) == [tag |-> "Panic", msg |-> m]

None == [tag |-> "None"]

-----------------------------------------------------------------------------
(* Byte-string and text helpers *)

Zeros(n) == [i \in 1..n |-> 0]

Last(s) == s[Len(s)]

StartsWith(s, p) == Len(s) >= Len(p) /\ SubSeq(s, 1, Len(p)) = p

\* str::trim_start_matches(pat): removes every leading repetition of pat
RECURSIVE trim_start_matches(_, _)
trim_start_matches(s, pat) ==
    IF Len(pat) > 0 /\ StartsWith(s, pat)
    THEN trim_start_matches(SubSeq(s, Len(pat) + 1, Len(s)), pat)
    ELSE s

\* number of leading elements of s equal to x
RECURSIVE LeadingCount(_, _)
LeadingCount(s, x) ==
    IF s # << >> /\ Head(s) = x THEN 1 + LeadingCount(Tail(s), x) ELSE 0

\* big-endian comparison of two byte strings of the same length
LessThanBE(a, b) ==
    \E i \in 1..Len(a) :
        /\ a[i] < b[i]
        /\ \A j \in 1..(i - 1) : a[j] = b[j]

-----------------------------------------------------------------------------
(* private_key.rs constants *)

LEN == 32

SHA256_OUTPUT_LEN == 32

SIG_LEN == 65

HEX_ENCODE_PREFIX == << "0", "x" >>

CB58_ENCODE_PREFIX == << "P", "r", "i", "v", "a", "t", "e", "K", "e", "y", "-" >>

\* the order n of the secp256k1 group, big-endian
ORDER ==
    << 255, 255, 255, 255, 255, 255, 255, 255, 255, 255, 255, 255, 255, 255, 255, 254,
       186, 174, 220, 230, 175, 72, 160, 59, 191, 210, 94, 140, 208, 54, 65, 65 >>

-----------------------------------------------------------------------------
(* k256::SecretKey: the scalar is held as 16 little-endian limbs of 16     *)
(* bits; from_be_bytes / to_be_bytes convert to and from 32 big-endian     *)
(* bytes.                                                                  *)

LimbsOfBytes(raw) == [i \in 1..16 |-> raw[34 - 2 * i] + 256 * raw[33 - 2 * i]]

BytesOfLimbs(l) ==
    [j \in 1..32 |->
        IF (32 - j) % 2 = 0 THEN l[((32 - j) \div 2) + 1] % 256
                            ELSE l[((32 - j) \div 2) + 1] \div 256]

\* k256::SecretKey::from_be_bytes: a 32-byte non-zero scalar below the order
SecretKey_from_be_bytes(raw) ==
    IF Len(raw) # 32 THEN Err("crypto error")
    ELSE IF raw = Zeros(32) \/ ~LessThanBE(raw, ORDER) THEN Err("crypto error")
    ELSE Ok(LimbsOfBytes(raw))

SecretKey_to_be_bytes(k) == BytesOfLimbs(k)

-----------------------------------------------------------------------------
(* hex crate *)

HexDigits ==
    << "0", "1", "2", "3", "4", "5", "6", "7", "8", "9", "a", "b", "c", "d", "e", "f" >>

HexUpper == << "A", "B", "C", "D", "E", "F" >>

IsHexChar(c) ==
    (\E i \in 1..16 : HexDigits[i] = c) \/ (\E i \in 1..6 : HexUpper[i] = c)

HexVal(c) ==
    IF \E i \in 1..16 : HexDigits[i] = c
    THEN (CHOOSE i \in 1..16 : HexDigits[i] = c) - 1
    ELSE (CHOOSE i \in 1..6 : HexUpper[i] = c) + 9

\* hex::encode: two lower-case digits per byte
hex_encode(b) ==
    [i \in 1..(2 * Len(b)) |->
        IF i % 2 = 1 THEN HexDigits[(b[(i + 1) \div 2] \div 16) + 1]
                     ELSE HexDigits[(b[i \div 2] % 16) + 1]]

\* hex::decode: fails on an odd length or a character that is no hex digit
hex_decode(s) ==
    IF Len(s) % 2 = 1 THEN Err("Odd number of digits")
    ELSE IF \E i \in 1..Len(s) : ~IsHexChar(s[i]) THEN Err("Invalid character")
    ELSE Ok([i \in 1..(Len(s) \div 2) |->
                16 * HexVal(s[2 * i - 1]) + HexVal(s[2 * i])])

-----------------------------------------------------------------------------
(* formatting module: checksummed base-58 ("CB58").  The payload is        *)
(* followed by the first 4 bytes of SHA-256(SHA-256(payload)) and the      *)
(* whole is base-58 encoded; decoding verifies and strips the checksum.    *)

B58Alphabet ==
    << "1", "2", "3", "4", "5", "6", "7", "8", "9", "A", "B", "C", "D", "E", "F", "G",
       "H", "J", "K", "L", "M", "N", "P", "Q", "R", "S", "T", "U", "V", "W", "X", "Y",
       "Z", "a", "b", "c", "d", "e", "f", "g", "h", "i", "j", "k", "m", "n", "o", "p",
       "q", "r", "s", "t", "u", "v", "w", "x", "y", "z" >>

CHECKSUM_LEN == 4

\* a 32-byte digest of a byte string; stands for SHA-256, which is not
\* computed here: a running mix of the bytes and the length, spread over 32 bytes
RECURSIVE Mix(_, _)
Mix(b, acc) ==
    IF b # << >> /\ acc = acc
    THEN Mix(Tail(b), (acc * 33 + Head(b) + 1) % 65521)
    ELSE acc

Sha256(b) ==
    LET a == Mix(b, Len(b) + 7)
    IN  [i \in 1..32 |-> ((a + 1) * (i + 12) + i * i + (a \div 256)) % 256]

Checksum(payload) == SubSeq(Sha256(Sha256(payload)), 1, CHECKSUM_LEN)

StripZeros(s) == SubSeq(s, LeadingCount(s, 0) + 1, Len(s))

\* one long division of a big-endian base-256 number by 58 (the guard's
\* equalities only make the accumulators be evaluated at each step)
RECURSIVE DivStep(_, _, _, _)
DivStep(num, i, rem, q) ==
    IF i <= Len(num) /\ rem = rem /\ q = q
    THEN DivStep(num, i + 1, (rem * 256 + num[i]) % 58,
                 Append(q, (rem * 256 + num[i]) \div 58))
    ELSE [q |-> q, r |-> rem]

\* base-58 digits (most significant first) of a number with no leading zero byte
RECURSIVE ToBase58Digits(_)
ToBase58Digits(num) ==
    IF num = << >> THEN << >>
    ELSE LET qr == DivStep(num, 1, 0, << >>)
         IN  Append(ToBase58Digits(StripZeros(qr.q)), qr.r)

\* base-58 text of a byte string: one "1" per leading zero byte, then the digits
base58_encode(b) ==
    LET z == LeadingCount(b, 0)
        digs == ToBase58Digits(StripZeros(b))
    IN  [i \in 1..z |-> "1"] \o [i \in 1..Len(digs) |-> B58Alphabet[digs[i] + 1]]

\* num * 58 + carry on a big-endian base-256 number, from its last byte
RECURSIVE MulAddStep(_, _, _, _)
MulAddStep(num, i, carry, out) ==
    IF i > 0 /\ carry = carry /\ out = out
    THEN MulAddStep(num, i - 1, (num[i] * 58 + carry) \div 256,
                    << (num[i] * 58 + carry) % 256 >> \o out)
    ELSE (IF carry > 0 THEN << carry >> \o out ELSE out)

RECURSIVE FromBase58Digits(_, _, _)
FromBase58Digits(s, i, num) ==
    IF i <= Len(s) /\ num = num
    THEN FromBase58Digits(s, i + 1,
            MulAddStep(num, Len(num),
                       (CHOOSE d \in 1..58 : B58Alphabet[d] = s[i]) - 1, << >>))
    ELSE num

\* bytes of a base-58 text; fails on a character outside the alphabet
base58_decode(s) ==
    IF \E i \in 1..Len(s) : \A d \in 1..58 : B58Alphabet[d] # s[i]
    THEN Err("failed to decode base58")
    ELSE LET z == LeadingCount(s, "1")
         IN  Ok(Zeros(z) \o FromBase58Digits(s, z + 1, << >>))

encode_cb58_with_checksum_string(b) == base58_encode(b \o Checksum(b))

decode_cb58_with_checksum(s) ==
    LET d == base58_decode(s)
    IN  IF d.tag = "Err" THEN d
        ELSE IF Len(d.val) < CHECKSUM_LEN THEN Err("input too short for checksum")
        ELSE LET payload == SubSeq(d.val, 1, Len(d.val) - CHECKSUM_LEN)
                 sum == SubSeq(d.val, Len(d.val) - CHECKSUM_LEN + 1, Len(d.val))
             IN  IF sum # Checksum(payload) THEN Err("invalid checksum")
                 ELSE Ok(payload)

-----------------------------------------------------------------------------
(* impl Key *)

NoKey == None

\* Key::from_bytes
from_bytes(raw) ==
    IF Len(raw) # LEN THEN Panic("assertion failed: raw.len() == LEN")
    ELSE LET sk == SecretKey_from_be_bytes(raw)
         IN  IF sk.tag = "Err" THEN Err("failed k256::SecretKey::from_be_bytes")
             ELSE Ok(sk.val)

\* Key::generate; rnd is the outcome of SecureRandom::fill on the 32-byte buffer
generate(rnd) ==
    IF rnd.tag = "Err" THEN Err("failed secure_random")
    ELSE from_bytes(rnd.val)

\* Key::to_bytes
to_bytes(k) ==
    LET b == SecretKey_to_be_bytes(k)
    IN  [i \in 1..LEN |-> b[i]]

\* Key::to_hex
to_hex(k) == HEX_ENCODE_PREFIX \o hex_encode(SecretKey_to_be_bytes(k))

\* from_hex that strips every leading "0" and "x" character instead of the prefix
from_hex_trim_chars(s) ==
    LET ss == trim_start_matches(trim_start_matches(s, HEX_ENCODE_PREFIX), << "0" >>)
        b == hex_decode(ss)
    IN  IF b.tag = "Err" THEN Err("failed hex::decode")
        ELSE from_bytes(b.val)

\* Key::from_hex
from_hex(s) ==
    LET ss == trim_start_matches(s, HEX_ENCODE_PREFIX)
        b == hex_decode(ss)
    IN  IF b.tag = "Err" THEN Err("failed hex::decode")
        ELSE from_bytes(b.val)

\* Key::to_cb58
to_cb58(k) ==
    CB58_ENCODE_PREFIX \o encode_cb58_with_checksum_string(SecretKey_to_be_bytes(k))

\* Key::from_cb58
from_cb58(s) ==
    LET ss == trim_start_matches(s, CB58_ENCODE_PREFIX)
        b == decode_cb58_with_checksum(ss)
    IN  IF b.tag = "Err" THEN b
        ELSE from_bytes(b.val)

\* SigningKey::sign_prehash: a recoverable signature (r, s, recovery id) over
\* the digest; r and s stand for the curve computation, which is not modelled
sign_prehash(k, digest) ==
    LET r == Sha256(SecretKey_to_be_bytes(k) \o digest \o << 1 >>)
        s == Sha256(SecretKey_to_be_bytes(k) \o digest \o << 2 >>)
    IN  Ok([r |-> r, s |-> s, recid |-> r[1] % 2])

\* Key::sign_digest
sign_digest(k, digest) ==
    IF Len(digest) # SHA256_OUTPUT_LEN
    THEN Panic("assertion failed: digest.len() == SHA256_OUTPUT_LEN")
    ELSE LET sig == sign_prehash(k, digest)
         IN  IF sig.tag = "Err" THEN Err("failed sign_prehash") ELSE sig

\* Sig::to_bytes: r (32) || s (32) || recovery id (1)
Sig_to_bytes(sig) ==
    [i \in 1..SIG_LEN |->
        IF i <= 32 THEN sig.r[i] ELSE IF i <= 64 THEN sig.s[i - 32] ELSE sig.recid]

\* impl SignOnly for Key: sign_digest
SignOnly_sign_digest(k, msg) ==
    LET sig == sign_digest(k, msg)
    IN  IF sig.tag # "Ok" THEN sig ELSE Ok(Sig_to_bytes(sig.val))

\* impl Display for Key
Display_fmt(k) == hex_encode(to_bytes(k))

-----------------------------------------------------------------------------
(* Inputs of the Key API *)

\* 32 bytes: 30 zero bytes, then hi and lo
Scalar(hi, lo) == [i \in 1..32 |-> IF i = 31 THEN hi ELSE IF i = 32 THEN lo ELSE 0]

\* the order with its last byte replaced
OrderWithLast(b) == [i \in 1..32 |-> IF i = 32 THEN b ELSE ORDER[i]]

Pattern(n) == [i \in 1..n |-> (i * 37 + 11) % 256]

\* scalars that are valid private keys
ValidRaw ==
    { Scalar(0, 1), Scalar(0, 2), Scalar(1, 0), Scalar(171, 205),
      OrderWithLast(64), Pattern(32) }

\* 32-byte values that are no private key: zero, the order, above the order
InvalidRaw == { Zeros(32), ORDER, OrderWithLast(66), [i \in 1..32 |-> 255] }

\* byte strings of a length other than 32
WrongLenRaw == { << >>, Pattern(31), Pattern(33), Zeros(31), Scalar(0, 1) \o << 0 >> }

RawInputs == ValidRaw \cup InvalidRaw \cup WrongLenRaw

UpperCase(s) ==
    [i \in 1..Len(s) |->
        IF \E d \in 11..16 : HexDigits[d] = s[i]
        THEN HexUpper[(CHOOSE d \in 11..16 : HexDigits[d] = s[i]) - 10]
        ELSE s[i]]

HexInputs ==
    { HEX_ENCODE_PREFIX \o hex_encode(r) : r \in RawInputs }
    \cup { hex_encode(Scalar(171, 205)),
           UpperCase(hex_encode(Scalar(171, 205))),
           HEX_ENCODE_PREFIX \o HEX_ENCODE_PREFIX \o hex_encode(Scalar(0, 2)),
           HEX_ENCODE_PREFIX \o Tail(hex_encode(Scalar(0, 2))),
           HEX_ENCODE_PREFIX \o hex_encode(Zeros(31)) \o << "z", "z" >> }

\* text with its last character replaced by another of the alphabet
Tamper(s) ==
    [i \in 1..Len(s) |-> IF i = Len(s) THEN (IF s[i] = "2" THEN "3" ELSE "2") ELSE s[i]]

Cb58Inputs ==
    { CB58_ENCODE_PREFIX \o encode_cb58_with_checksum_string(r) : r \in RawInputs }
    \cup { encode_cb58_with_checksum_string(Scalar(0, 2)),
           CB58_ENCODE_PREFIX \o Tamper(encode_cb58_with_checksum_string(Scalar(0, 2))),
           CB58_ENCODE_PREFIX \o CB58_ENCODE_PREFIX
               \o encode_cb58_with_checksum_string(Scalar(1, 0)),
           CB58_ENCODE_PREFIX \o << "0", "O" >>,
           CB58_ENCODE_PREFIX \o << "2", "2" >>,
           << >> }

\* what SecureRandom::fill can do to the buffer: fail, or deliver any 32 bytes
RandomOutcomes ==
    { Err("Unspecified") } \cup { Ok(r) : r \in ValidRaw \cup InvalidRaw }

DigestInputs ==
    { Pattern(32), Zeros(32), Pattern(31), Pattern(33), << >>, Pattern(64) }

-----------------------------------------------------------------------------
(* The Key API as a caller drives it.  A constructor leaves the caller     *)
(* with the new key, or with none when it fails or aborts.                 *)

KeyOf(r) == IF r.tag = "Ok" THEN r.val ELSE NoKey

KeyIdle ==
    /\ kop = "none"
    /\ karg = None
    /\ kres = None
    /\ key = NoKey

LoadIdle ==
    /\ lin = None
    /\ lres = None

SignerIdle ==
    /\ signer = None
    /\ sop = "none"
    /\ sarg = None
    /\ scalls = << >>
    /\ sres = None

LogIdle ==
    /\ pkA = NoKey
    /\ pkB = NoKey
    /\ outA = << >>
    /\ outB = << >>

RelayIdle ==
    /\ rex = "none"
    /\ rpc = "start"
    /\ rin = None
    /\ relay_tx = None
    /\ rop = "none"
    /\ rsigs = << >>
    /\ signed = None
    /\ calldata = None
    /\ estimated_gas = None
    /\ submitted = None

Construct(name, arg, r) ==
    /\ kop' = name
    /\ karg' = arg
    /\ kres' = r
    /\ key' = KeyOf(r)
    /\ UNCHANGED << loadVars, signerVars, logVars, relayVars >>

Use(name, arg, r) ==
    /\ kop' = name
    /\ karg' = arg
    /\ kres' = r
    /\ UNCHANGED << key, loadVars, signerVars, logVars, relayVars >>

FromBytes ==
    /\ \E raw \in RawInputs : Construct("from_bytes", raw, from_bytes(raw))

FromHex ==
    /\ \E s \in HexInputs : Construct("from_hex", s, from_hex(s))

FromCb58 ==
    /\ \E s \in Cb58Inputs : Construct("from_cb58", s, from_cb58(s))

Generate ==
    /\ \E rnd \in RandomOutcomes : Construct("generate", rnd, generate(rnd))

ToBytes ==
    /\ key # NoKey
    /\ Use("to_bytes", None, Ok(to_bytes(key)))

ToHex ==
    /\ key # NoKey
    /\ Use("to_hex", None, Ok(to_hex(key)))

ToCb58 ==
    /\ key # NoKey
    /\ Use("to_cb58", None, Ok(to_cb58(key)))

\* test_private_key: the encoding just taken of the key is decoded again
ReloadBytes ==
    /\ kop = "to_bytes"
    /\ Use("reload_bytes", kres.val, from_bytes(kres.val))

ReloadHex ==
    /\ kop = "to_hex"
    /\ Use("reload_hex", kres.val, from_hex(kres.val))

ReloadCb58 ==
    /\ kop = "to_cb58"
    /\ Use("reload_cb58", kres.val, from_cb58(kres.val))

SignDigest ==
    /\ key # NoKey
    /\ \E d \in DigestInputs : Use("sign_digest", d, sign_digest(key, d))

SignOnlySignDigest ==
    /\ key # NoKey
    /\ \E d \in DigestInputs :
           Use("SignOnly::sign_digest", d, SignOnly_sign_digest(key, d))

Init == KeyIdle /\ LoadIdle /\ SignerIdle /\ LogIdle /\ RelayIdle

Next ==
    \/ FromBytes
    \/ FromHex
    \/ FromCb58
    \/ Generate
    \/ ToBytes
    \/ ToHex
    \/ ToCb58
    \/ ReloadBytes
    \/ ReloadHex
    \/ ReloadCb58
    \/ SignDigest
    \/ SignOnlySignDigest

Spec == Init /\ [][Next]_vars

-----------------------------------------------------------------------------
(* load_cb58_keys *)

\* str::lines: the text between line feeds, a final carriage return of each
\* line dropped; text after the last line feed is a line only if not empty
lines(text) ==
    LET nl == { i \in 1..Len(text) : text[i] = "\n" }
        count == Cardinality(nl) + (IF text # << >> /\ Last(text) # "\n" THEN 1 ELSE 0)
        pos(k) == CHOOSE q \in nl : Cardinality({ r \in nl : r <= q }) = k
        first(k) == IF k = 1 THEN 1 ELSE pos(k - 1) + 1
        last(k) == IF k <= Cardinality(nl) THEN pos(k) - 1 ELSE Len(text)
        strip(l) == IF l # << >> /\ Last(l) = "\r" THEN SubSeq(l, 1, Len(l) - 1) ELSE l
    IN  [k \in 1..count |-> strip(SubSeq(text, first(k), last(k)))]

\* the loop of load_cb58_keys from line i (= line_cnt) on, with the keys
\* pushed and the lines recorded so far
RECURSIVE LoadLoop_no_insert(_, _, _, _)
LoadLoop_no_insert(ls, i, keys, added) ==
    IF i > Len(ls) THEN Ok(keys)
    ELSE IF ls[i] \in added
         THEN [tag |-> "Err", msg |-> "key already added before", line |-> i]
    ELSE LET k == from_cb58(ls[i])
         IN  IF k.tag = "Panic" THEN k
             ELSE IF k.tag = "Err"
                  THEN Panic("called Result::unwrap() on an Err value")
             ELSE LoadLoop_no_insert(ls, i + 1, Append(keys, k.val), added)

RECURSIVE LoadLoop(_, _, _, _)
LoadLoop(ls, i, keys, added) ==
    IF i > Len(ls) THEN Ok(keys)
    ELSE IF ls[i] \in added
         THEN [tag |-> "Err", msg |-> "key already added before", line |-> i]
    ELSE LET k == from_cb58(ls[i])
         IN  IF k.tag = "Panic" THEN k
             ELSE IF k.tag = "Err"
                  THEN Panic("called Result::unwrap() on an Err value")
             ELSE LoadLoop(ls, i + 1, Append(keys, k.val), added \cup { ls[i] })

\* slice::shuffle: any order of the keys
shuffle(keys) ==
    { [i \in 1..Len(keys) |-> keys[f[i]]] : f \in Permutations(1..Len(keys)) }

\* load_cb58_keys(d, permute_keys): the set of outcomes the call can have.
\* d is either bytes that are not UTF-8 or the bytes of d.text.
load_cb58_keys(d, permute_keys) ==
    IF ~d.utf8 THEN { Err("failed to convert str from_utf8") }
    ELSE LET r == LoadLoop(lines(d.text), 1, << >>, {})
         IN  IF r.tag # "Ok" THEN { r }
             ELSE IF permute_keys THEN { Ok(p) : p \in shuffle(r.val) }
             ELSE { r }

-----------------------------------------------------------------------------
(* Inputs of load_cb58_keys *)

\* most lines a text has
MaxLines == 3

LineA == CB58_ENCODE_PREFIX \o encode_cb58_with_checksum_string(Scalar(0, 1))

LineB == CB58_ENCODE_PREFIX \o encode_cb58_with_checksum_string(Pattern(32))

\* the key of LineA written without the prefix
LineA2 == encode_cb58_with_checksum_string(Scalar(0, 1))

\* a line whose checksum does not match
LineBad == CB58_ENCODE_PREFIX \o Tamper(encode_cb58_with_checksum_string(Scalar(0, 2)))

LineBlank == << >>

LineChoices == { LineA, LineB, LineA2, LineBad, LineBlank }

LineSeqs == UNION { [1..n -> LineChoices] : n \in 0..MaxLines }

RECURSIVE Join(_, _)
Join(ls, eol) == IF ls = << >> THEN << >> ELSE Head(ls) \o eol \o Join(Tail(ls), eol)

\* texts: every line ended by a line feed; and a few with CR LF endings or
\* no line ending after the last line
LoadTexts ==
    { Join(ls, << "\n" >>) : ls \in LineSeqs }
    \cup { Join(<< LineA, LineB >>, << "\r", "\n" >>),
           LineA \o << "\r", "\n" >> \o LineA \o << "\n" >>,
           LineB \o << "\n" >> \o LineA,
           LineB \o << "\n" >> \o LineB }

LoadInputs ==
    { [utf8 |-> FALSE, text |-> << >>] } \cup { [utf8 |-> TRUE, text |-> t] : t \in LoadTexts }

\* from_cb58 of the lines the texts are made of
Decoded == [l \in LineChoices |-> from_cb58(l)]

-----------------------------------------------------------------------------
(* A call of load_cb58_keys *)

LoadCall ==
    /\ lin = None
    /\ \E d \in LoadInputs, permute_keys \in BOOLEAN :
           lin' = [d |-> d, permute_keys |-> permute_keys]
    /\ UNCHANGED << lres, keyVars, signerVars, logVars, relayVars >>

LoadReturn ==
    /\ lin # None
    /\ lres = None
    /\ lres' \in load_cb58_keys(lin.d, lin.permute_keys)
    /\ UNCHANGED << lin, keyVars, signerVars, logVars, relayVars >>

NextLoad == LoadCall \/ LoadReturn

SpecLoad == Init /\ [][NextLoad]_vars

-----------------------------------------------------------------------------
(* Unsigned integers wider than the checker's: a u64 is 4 and a U256 is 16  *)
(* little-endian limbs of 16 bits.                                         *)

LIMB == 2 ^ 16

U64(n) == << n % LIMB, n \div LIMB, 0, 0 >>

U256_from_u64(x) == x \o Zeros(12)

\* carry out of limb i of a + b
RECURSIVE Carry(_, _, _)
Carry(a, b, i) == IF i = 0 THEN 0 ELSE (a[i] + b[i] + Carry(a, b, i - 1)) \div LIMB

\* a + b on u64: the wrapped sum, and whether it overflowed
AddU64(a, b) ==
    [val |-> [i \in 1..4 |-> (a[i] + b[i] + Carry(a, b, i - 1)) % LIMB],
     overflow |-> Carry(a, b, 4) > 0]

\* U256::as_u64: panics when the value does not fit
as_u64(u) ==
    IF \E i \in 5..16 : u[i] # 0 THEN Panic("Integer overflow when casting to u64")
    ELSE Ok(SubSeq(u, 1, 4))

-----------------------------------------------------------------------------
(* signature module and the external (KMS) signer *)

\* Cmk::sign_digest: the external call.  resp is what the service does with
\* it: a signature over the digest with some recovery id, or a failure that
\* carries the service's retryability hint.
Cmk_sign_digest(inner, digest, resp) ==
    IF resp.tag = "Ok"
    THEN Ok([cmk |-> inner, digest |-> digest, recid |-> resp.recid])
    ELSE [tag |-> "Err", kind |-> "API", is_retryable |-> resp.is_retryable]

\* rsig_to_ethsig: r and s as they are, v = recovery id + 27
rsig_to_ethsig(sig) ==
    [cmk |-> sig.cmk, digest |-> sig.digest, v |-> U64(sig.recid + 27)]

\* apply_eip155: v = recovery id + chain_id * 2 + 35, in u64.  Arithmetic
\* that overflows panics in a build with overflow checks and wraps in one
\* without: both outcomes are possible.
apply_eip155(sig, chain_id) ==
    LET recid == sig.v[1] - 27
        twice == AddU64(chain_id, chain_id)
        plus35 == AddU64(twice.val, U64(35))
        total == AddU64(plus35.val, U64(recid))
        wrapped == Ok([sig EXCEPT !.v = total.val])
    IN  IF twice.overflow \/ plus35.overflow \/ total.overflow
        THEN { Panic("attempt to multiply or add with overflow"), wrapped }
        ELSE { wrapped }

-----------------------------------------------------------------------------
(* eth_signer.rs: Signer.  Every signing method is given the response of   *)
(* the external signer and yields the set of its possible outcomes, each   *)
(* with the digests it handed to the external signer.                      *)

Outcome(r, calls) == [res |-> r, calls |-> calls]

\* ethers_core::utils::hash_message: hash of the EIP-191 prefixed message
hash_message(message) == [kind |-> "keccak256", eip191 |-> TRUE, of |-> message]

\* Eip712::encode_eip712: the EIP-712 hash of the payload, or a failure
encode_eip712(payload) ==
    IF payload.encodable
    THEN Ok([kind |-> "keccak256", eip191 |-> FALSE, of |-> payload.id])
    ELSE Err("invalid types")

\* TypedTransaction::sighash
sighash(tx) == [kind |-> "keccak256", eip191 |-> FALSE, of |-> tx]

\* Signer::new
Signer_new(inner, chain_id) ==
    Ok([inner |-> inner, chain_id |-> chain_id, address |-> [h160_of |-> inner]])

\* Signer::sign_digest_with_eip155
sign_digest_with_eip155(self, digest, chain_id, resp) ==
    LET sig == Cmk_sign_digest(self.inner, digest, resp)
    IN  IF sig.tag = "Err" THEN { Outcome(sig, << digest >>) }
        ELSE { Outcome(r, << digest >>) :
                 r \in apply_eip155(rsig_to_ethsig(sig.val), chain_id) }

\* Signer::sign_message
sign_message(self, message, resp) ==
    LET message_hash == hash_message(message)
        chain_id == as_u64(self.chain_id)
    IN  IF chain_id.tag = "Panic" THEN { Outcome(chain_id, << >>) }
        ELSE sign_digest_with_eip155(self, message_hash, chain_id.val, resp)

\* an outcome of sign_transaction, with the caller's transaction after the call
TxOutcome(out, tx) == [res |-> out.res, calls |-> out.calls, tx |-> tx]

\* sign_transaction that hashes the transaction with the chain id it chose
\* but folds the signer's own chain id into v
sign_transaction_folds_own(self, tx, resp) ==
    LET own == as_u64(self.chain_id)
    IN  IF own.tag = "Panic" THEN { TxOutcome(Outcome(own, << >>), tx) }
        ELSE LET chain_id == IF tx.chain_id.tag = "Some" THEN tx.chain_id.val
                             ELSE own.val
                 tx_with_chain == [tx EXCEPT !.chain_id = [tag |-> "Some", val |-> chain_id]]
             IN  { TxOutcome(out, tx) :
                     out \in sign_digest_with_eip155(self, sighash(tx_with_chain),
                                                     own.val, resp) }

\* Signer::sign_transaction; unwrap_or evaluates its argument in every case.
\* The chain id is set on a clone: the caller's tx is as it was.
sign_transaction(self, tx, resp) ==
    LET own == as_u64(self.chain_id)
    IN  IF own.tag = "Panic" THEN { TxOutcome(Outcome(own, << >>), tx) }
        ELSE LET chain_id == IF tx.chain_id.tag = "Some" THEN tx.chain_id.val
                             ELSE own.val
                 tx_with_chain == [tx EXCEPT !.chain_id = [tag |-> "Some", val |-> chain_id]]
             IN  { TxOutcome(out, tx) :
                     out \in sign_digest_with_eip155(self, sighash(tx_with_chain),
                                                     chain_id, resp) }

\* sign_typed_data that folds the chain id as the other two methods do
sign_typed_data_with_eip155(self, payload, resp) ==
    LET digest == encode_eip712(payload)
    IN  IF digest.tag = "Err"
        THEN { Outcome([tag |-> "Err", kind |-> "Other", is_retryable |-> FALSE], << >>) }
        ELSE sign_digest_with_eip155(self, digest.val, SubSeq(self.chain_id, 1, 4), resp)

\* Signer::sign_typed_data
sign_typed_data(self, payload, resp) ==
    LET digest == encode_eip712(payload)
    IN  IF digest.tag = "Err"
        THEN { Outcome([tag |-> "Err", kind |-> "Other", is_retryable |-> FALSE], << >>) }
        ELSE LET sig == Cmk_sign_digest(self.inner, digest.val, resp)
             IN  IF sig.tag = "Err" THEN { Outcome(sig, << digest.val >>) }
                 ELSE { Outcome(Ok(rsig_to_ethsig(sig.val)), << digest.val >>) }

\* Signer::address
Signer_address(self) == self.address

\* Signer::chain_id
Signer_chain_id(self) == as_u64(self.chain_id)

\* Signer::with_chain_id
with_chain_id(self, chain_id) == [self EXCEPT !.chain_id = U256_from_u64(chain_id)]

-----------------------------------------------------------------------------
(* Inputs of the Signer *)

Cmks == { "cmk-1", "cmk-2" }

\* 1, 43112, 2^63 - 18, 2^63 + 1, 2^64 - 1
ChainIdsU64 ==
    { U64(1), U64(43112), << 65518, 65535, 65535, 32767 >>, << 1, 0, 0, 32768 >>,
      << 65535, 65535, 65535, 65535 >> }

\* the same, and 2^64 and 2^256 - 1
ChainIdsU256 ==
    { U256_from_u64(c) : c \in ChainIdsU64 }
    \cup { [i \in 1..16 |-> IF i = 5 THEN 1 ELSE 0], [i \in 1..16 |-> 65535] }

Responses ==
    { [tag |-> "Ok", recid |-> 0], [tag |-> "Ok", recid |-> 1],
      [tag |-> "Err", is_retryable |-> TRUE], [tag |-> "Err", is_retryable |-> FALSE] }

Messages == { << >>, << 104, 105 >> }

Transactions ==
    { [chain_id |-> None, body |-> "tx"],
      [chain_id |-> [tag |-> "Some", val |-> U64(5)], body |-> "tx"] }

Payloads == { [id |-> "ForwardRequest", encodable |-> TRUE],
              [id |-> "Malformed", encodable |-> FALSE] }

-----------------------------------------------------------------------------
(* The Signer as a caller drives it *)

SignerStep(name, arg, out, self) ==
    /\ sop' = name
    /\ sarg' = arg
    /\ sres' = out.res
    /\ scalls' = out.calls
    /\ signer' = self
    /\ UNCHANGED << keyVars, loadVars, logVars, relayVars >>

New ==
    /\ \E inner \in Cmks, c \in ChainIdsU256 :
           SignerStep("new", [inner |-> inner, chain_id |-> c],
                      Outcome(Signer_new(inner, c), << >>), Signer_new(inner, c).val)

WithChainId ==
    /\ signer # None
    /\ \E c \in ChainIdsU64 :
           SignerStep("with_chain_id", [chain_id |-> c],
                      Outcome(Ok(with_chain_id(signer, c)), << >>), with_chain_id(signer, c))

SignMessage ==
    /\ signer # None
    /\ \E m \in Messages, resp \in Responses :
           \E out \in sign_message(signer, m, resp) :
               SignerStep("sign_message", [message |-> m, resp |-> resp], out, signer)

SignTransaction ==
    /\ signer # None
    /\ \E tx \in Transactions, resp \in Responses :
           \E out \in sign_transaction(signer, tx, resp) :
               SignerStep("sign_transaction",
                          [tx |-> tx, resp |-> resp, tx_after |-> out.tx], out, signer)

SignTypedData ==
    /\ signer # None
    /\ \E payload \in Payloads, resp \in Responses :
           \E out \in sign_typed_data(signer, payload, resp) :
               SignerStep("sign_typed_data", [payload |-> payload, resp |-> resp], out, signer)

Address ==
    /\ signer # None
    /\ SignerStep("address", None, Outcome(Ok(Signer_address(signer)), << >>), signer)

ChainId ==
    /\ signer # None
    /\ SignerStep("chain_id", None, Outcome(Signer_chain_id(signer), << >>), signer)

NextSigner ==
    \/ New
    \/ WithChainId
    \/ SignMessage
    \/ SignTransaction
    \/ SignTypedData
    \/ Address
    \/ ChainId

SpecSigner == Init /\ [][NextSigner]_vars

-----------------------------------------------------------------------------
(* Text that formatting and logging a key emits.  Two runs, A and B, go    *)
(* through the same statements, each with a key of its own.                *)

\* most statements a run emits
MaxLog == 2

Text_hex == << "h", "e", "x", ":", " " >>

Text_cb58 == << "c", "b", "5", "8", ":", " " >>

\* #[derive(Debug)] for Key: SecretKey's Debug prints no field
Debug_fmt(k) ==
    << "K", "e", "y", "(", "S", "e", "c", "r", "e", "t", "K", "e", "y", " ", "{", " ",
       ".", ".", " ", "}", ")" >>

\* test_private_key: log::info!("hex: {}", hex1)
log_hex(k) == Text_hex \o to_hex(k)

\* test_private_key: log::info!("cb58: {}", cb1)
log_cb58(k) == Text_cb58 \o to_cb58(k)

LogKeys == { LimbsOfBytes(r) : r \in ValidRaw }

Emit(a, b) ==
    /\ pkA # NoKey
    /\ Len(outA) < MaxLog
    /\ outA' = Append(outA, a)
    /\ outB' = Append(outB, b)
    /\ UNCHANGED << pkA, pkB, keyVars, loadVars, signerVars, relayVars >>

LogStart ==
    /\ pkA = NoKey
    /\ \E a \in LogKeys, b \in LogKeys :
           /\ pkA' = a
           /\ pkB' = b
    /\ UNCHANGED << outA, outB, keyVars, loadVars, signerVars, relayVars >>

DisplayKey ==
    /\ pkA # NoKey
    /\ Emit(Display_fmt(pkA), Display_fmt(pkB))

DebugKey ==
    /\ pkA # NoKey
    /\ Emit(Debug_fmt(pkA), Debug_fmt(pkB))

TestLogHex ==
    /\ pkA # NoKey
    /\ Emit(log_hex(pkA), log_hex(pkB))

TestLogCb58 ==
    /\ pkA # NoKey
    /\ Emit(log_cb58(pkA), log_cb58(pkB))

NextLog ==
    \/ LogStart
    \/ DisplayKey
    \/ DebugKey
    \/ TestLogHex
    \/ TestLogCb58

SpecLog == Init /\ [][NextLog]_vars

-----------------------------------------------------------------------------
(* evm::eip712::gsn::Tx, the typed-data relay protocol, as the two example *)
(* programs drive it.  A request is a record of the builder's fields; a    *)
(* signature records the digest signed and the wallet that signed it.      *)

U256_zero == Zeros(16)

U256_MAX == [i \in 1..16 |-> LIMB - 1]

Some(v) == [tag |-> "Some", val |-> v]

\* U256::checked_add
checked_add(a, b) ==
    IF Carry(a, b, 16) > 0 THEN None
    ELSE Some([i \in 1..16 |-> (a[i] + b[i] + Carry(a, b, i - 1)) % LIMB])

\* Tx::new: every field empty or zero
Tx_new ==
    [domain_name |-> "", domain_version |-> "", domain_chain_id |-> U256_zero,
     domain_verifying_contract |-> "0x0", from |-> "0x0", to |-> "0x0",
     gas |-> U256_zero, value |-> U256_zero, nonce |-> U256_zero, data |-> "",
     valid_until_time |-> U256_zero, type_name |-> "", type_suffix_data |-> ""]

\* Tx::gas: the builder with its gas field replaced
Tx_gas(tx, gas) == [tx EXCEPT !.gas = gas]

RelayDomain(tx) ==
    [name |-> tx.domain_name, version |-> tx.domain_version,
     chain_id |-> tx.domain_chain_id,
     verifying_contract |-> tx.domain_verifying_contract]

ForwardRequest(tx) ==
    [from |-> tx.from, to |-> tx.to, value |-> tx.value, gas |-> tx.gas,
     nonce |-> tx.nonce, data |-> tx.data,
     valid_until_time |-> tx.valid_until_time, type_name |-> tx.type_name,
     type_suffix_data |-> tx.type_suffix_data]

\* keccak256(0x1901 ++ domain separator hash ++ request hash)
Tx_digest(tx) ==
    [kind |-> "keccak256", eip191 |-> FALSE,
     of |-> [domain |-> RelayDomain(tx), request |-> ForwardRequest(tx)]]

\* Tx::sign: the typed-data signature of the wallet over the request's
\* digest; ok is whether encoding and signing succeed
Tx_sign(tx, wallet, ok) ==
    IF ok THEN Ok([digest |-> Tx_digest(tx), by |-> wallet])
    ELSE Err("failed sign_typed_data")

\* Tx::sign_to_request: the request with its domain and its signature
Tx_sign_to_request(tx, wallet, ok) ==
    LET sig == Tx_sign(tx, wallet, ok)
    IN  IF sig.tag = "Err" THEN sig
        ELSE Ok([domain |-> RelayDomain(tx), request |-> ForwardRequest(tx),
                 signature |-> sig.val])

\* serde_json::to_vec of a signed request
to_vec(request) == [json |-> request]

\* Tx::encode_execute_call: the execute(ForwardRequest, signature) call
Tx_encode_execute_call(tx, sig, ok) ==
    IF ok THEN Ok([selector |-> "execute", request |-> ForwardRequest(tx),
                   signature |-> sig])
    ELSE Err("failed to encode_input")

-----------------------------------------------------------------------------
(* Inputs of the example programs *)

Wallets == { "wallet-1", "wallet-2", "wallet-3" }

\* 43112, 1 and 2^64
RelayChainIds ==
    { U256_from_u64(U64(43112)), U256_from_u64(U64(1)),
      [i \in 1..16 |-> IF i = 5 THEN 1 ELSE 0] }

\* 21000, 60000, 2^256 - 5001 and 2^256 - 1
GasEstimates ==
    { U256_from_u64(U64(21000)), U256_from_u64(U64(60000)),
      [i \in 1..16 |-> IF i = 1 THEN LIMB - 5001 ELSE LIMB - 1], U256_MAX }

-----------------------------------------------------------------------------
(* examples/evm_contract_counter_increment_forwarder_relay_eip712.rs and   *)
(* examples/evm_contract_forwarder_execute_counter_increment.rs: main(),   *)
(* one action per statement on the request, from its construction on.      *)

\* a failed unwrap(), expect() or ? ends main()
RelayAbort ==
    /\ rpc' = "aborted"
    /\ UNCHANGED << rex, rin, relay_tx, rop, rsigs, signed, calldata,
                    estimated_gas, submitted >>

\* let relay_tx = Tx::new().domain_name(..) ... .type_suffix_data(..)
RelayBuild ==
    /\ rex = "none"
    /\ \E chain_id \in RelayChainIds, wallet \in Wallets :
           /\ rin' = [chain_id |-> chain_id, wallet |-> wallet]
           /\ relay_tx' = [Tx_gas(Tx_new, U256_from_u64(U64(30000))) EXCEPT
                             !.domain_name = "my name",
                             !.domain_version = "1",
                             !.domain_chain_id = chain_id,
                             !.domain_verifying_contract = "forwarder",
                             !.from = wallet,
                             !.to = "recipient",
                             !.data = "increment()",
                             !.valid_until_time = U256_MAX,
                             !.type_name = "my name",
                             !.type_suffix_data = "my suffix"]
    /\ rex' = "relay"
    /\ rpc' = "built"
    /\ rop' = "build"
    /\ UNCHANGED << rsigs, signed, calldata, estimated_gas, submitted >>
    /\ UNCHANGED << keyVars, loadVars, signerVars, logVars >>

\* relay_tx.sign_to_request(..).await.unwrap(), serde_json::to_vec(..)
SignToRequestStep(from, to) ==
    /\ rex = "relay"
    /\ rpc = from
    /\ \E ok \in BOOLEAN :
           LET request == Tx_sign_to_request(relay_tx, rin.wallet, ok)
           IN  IF request.tag = "Err" THEN RelayAbort
               ELSE /\ rsigs' = Append(rsigs, request.val.signature)
                    /\ signed' = to_vec(request.val)
                    /\ rop' = "sign_to_request"
                    /\ rpc' = to
                    /\ UNCHANGED << rex, rin, relay_tx, calldata, estimated_gas,
                                    submitted >>
    /\ UNCHANGED << keyVars, loadVars, signerVars, logVars >>

RelaySignToRequest ==
    /\ SignToRequestStep("built", "signed")

\* relay_tx.encode_execute_call(signed_bytes.to_vec().clone()).unwrap()
RelayEncodeExecuteCall ==
    /\ rex = "relay"
    /\ rpc = "signed"
    /\ \E ok \in BOOLEAN :
           LET enc == Tx_encode_execute_call(relay_tx, signed, ok)
           IN  IF enc.tag = "Err" THEN RelayAbort
               ELSE /\ calldata' = enc.val
                    /\ rop' = "encode_execute_call"
                    /\ rpc' = "encoded"
                    /\ UNCHANGED << rex, rin, relay_tx, rsigs, signed,
                                    estimated_gas, submitted >>
    /\ UNCHANGED << keyVars, loadVars, signerVars, logVars >>

\* the outer transaction is built with chain_id.as_u64() and the chain
\* estimates its gas, or fails to
RelayEstimateGas ==
    /\ rex = "relay"
    /\ rpc = "encoded"
    /\ \E r \in { Ok(g) : g \in GasEstimates } \cup { Err("estimate_gas") } :
           IF as_u64(rin.chain_id).tag = "Panic" \/ r.tag = "Err" THEN RelayAbort
           ELSE /\ estimated_gas' = r.val
                /\ rpc' = "estimated"
                /\ UNCHANGED << rex, rin, relay_tx, rop, rsigs, signed, calldata,
                                submitted >>
    /\ UNCHANGED << keyVars, loadVars, signerVars, logVars >>

\* let relay_tx = relay_tx.gas(estimated_gas.checked_add(5000).unwrap())
RelaySetGas ==
    /\ rex = "relay"
    /\ rpc = "estimated"
    /\ LET gas == checked_add(estimated_gas, U256_from_u64(U64(5000)))
       IN  IF gas = None THEN RelayAbort
           ELSE /\ relay_tx' = Tx_gas(relay_tx, gas.val)
                /\ rop' = "gas"
                /\ rpc' = "gas_set"
                /\ UNCHANGED << rex, rin, rsigs, signed, calldata, estimated_gas,
                                submitted >>
    /\ UNCHANGED << keyVars, loadVars, signerVars, logVars >>

RelaySignToRequestAgain ==
    /\ SignToRequestStep("gas_set", "signed_again")

\* relay_server_provider.send_raw_transaction(signed_bytes).await.unwrap()
RelaySubmit ==
    /\ rex = "relay"
    /\ rpc = "signed_again"
    /\ \E ok \in BOOLEAN :
           IF ~ok THEN RelayAbort
           ELSE /\ submitted' = signed
                /\ rpc' = "submitted"
                /\ UNCHANGED << rex, rin, relay_tx, rop, rsigs, signed, calldata,
                                estimated_gas >>
    /\ UNCHANGED << keyVars, loadVars, signerVars, logVars >>

\* let rr_tx = Tx::new().domain_name(..) ... .type_suffix_data(..): the
\* domain chain id is 43112 and gas is left as Tx::new() set it
ExecBuild ==
    /\ rex = "none"
    /\ \E chain_id \in RelayChainIds, wallet \in Wallets :
           /\ rin' = [chain_id |-> chain_id, wallet |-> wallet]
           /\ relay_tx' = [Tx_new EXCEPT
                             !.domain_name = "my name",
                             !.domain_version = "1",
                             !.domain_chain_id = U256_from_u64(U64(43112)),
                             !.domain_verifying_contract = "forwarder",
                             !.from = wallet,
                             !.to = "recipient",
                             !.data = "increment()",
                             !.valid_until_time = U256_MAX,
                             !.type_name = "my name",
                             !.type_suffix_data = "my suffix"]
    /\ rex' = "execute"
    /\ rpc' = "built"
    /\ rop' = "build"
    /\ UNCHANGED << rsigs, signed, calldata, estimated_gas, submitted >>
    /\ UNCHANGED << keyVars, loadVars, signerVars, logVars >>

\* rr_tx.sign(no_gas_signer.clone()).await.unwrap()
ExecSign ==
    /\ rex = "execute"
    /\ rpc = "built"
    /\ \E ok \in BOOLEAN :
           LET sig == Tx_sign(relay_tx, rin.wallet, ok)
           IN  IF sig.tag = "Err" THEN RelayAbort
               ELSE /\ rsigs' = Append(rsigs, sig.val)
                    /\ signed' = sig.val
                    /\ rop' = "sign"
                    /\ rpc' = "signed"
                    /\ UNCHANGED << rex, rin, relay_tx, calldata, estimated_gas,
                                    submitted >>
    /\ UNCHANGED << keyVars, loadVars, signerVars, logVars >>

\* rr_tx.encode_execute_call(no_gas_sig).unwrap()
ExecEncodeExecuteCall ==
    /\ rex = "execute"
    /\ rpc = "signed"
    /\ \E ok \in BOOLEAN :
           LET enc == Tx_encode_execute_call(relay_tx, signed, ok)
           IN  IF enc.tag = "Err" THEN RelayAbort
               ELSE /\ calldata' = enc.val
                    /\ rop' = "encode_execute_call"
                    /\ rpc' = "encoded"
                    /\ UNCHANGED << rex, rin, relay_tx, rsigs, signed,
                                    estimated_gas, submitted >>
    /\ UNCHANGED << keyVars, loadVars, signerVars, logVars >>

\* the gas payer's wallet is built and submits the calldata to the
\* forwarder, or one of these steps fails
ExecSubmit ==
    /\ rex = "execute"
    /\ rpc = "encoded"
    /\ \E ok \in BOOLEAN :
           IF ~ok THEN RelayAbort
           ELSE /\ submitted' = calldata
                /\ rpc' = "submitted"
                /\ UNCHANGED << rex, rin, relay_tx, rop, rsigs, signed, calldata,
                                estimated_gas >>
    /\ UNCHANGED << keyVars, loadVars, signerVars, logVars >>

NextRelay ==
    \/ RelayBuild
    \/ RelaySignToRequest
    \/ RelayEncodeExecuteCall
    \/ RelayEstimateGas
    \/ RelaySetGas
    \/ RelaySignToRequestAgain
    \/ RelaySubmit
    \/ ExecBuild
    \/ ExecSign
    \/ ExecEncodeExecuteCall
    \/ ExecSubmit

SpecRelay == Init /\ [][NextRelay]_vars

-----------------------------------------------------------------------------
(* Claims about the Key API (specification Spec) *)

\* the bytes a constructor hands to from_bytes, None when decoding fails first
PayloadOf(name, arg) ==
    IF name = "from_bytes" THEN Ok(arg)
    ELSE IF name = "from_hex"
         THEN hex_decode(trim_start_matches(arg, HEX_ENCODE_PREFIX))
    ELSE IF name = "from_cb58"
         THEN decode_cb58_with_checksum(trim_start_matches(arg, CB58_ENCODE_PREFIX))
    ELSE None

\* C1: from_bytes on a byte string whose length is not 32, and from_hex and
\* from_cb58 on text whose decoded payload is not 32 bytes long, return an
\* error and no key; they never abort the caller.
C1_WrongLengthIsAnError ==
    (/\ kop \in { "from_bytes", "from_hex", "from_cb58" }
     /\ PayloadOf(kop, karg).tag = "Ok"
     /\ Len(PayloadOf(kop, karg).val) # LEN)
    => (kres.tag = "Err" /\ key = NoKey)

\* C2: sign_digest (the inherent method and the SignOnly method) returns an
\* error and no signature for a digest whose length is not 32, and a 65-byte
\* signature for a digest of 32 bytes; it never aborts the caller.
C2_SignDigestChecksLength ==
    /\ (kop \in { "sign_digest", "SignOnly::sign_digest" } /\ Len(karg) # 32)
       => kres.tag = "Err"
    /\ (kop = "sign_digest" /\ Len(karg) = 32)
       => (kres.tag = "Ok" /\ Len(Sig_to_bytes(kres.val)) = 65)
    /\ (kop = "SignOnly::sign_digest" /\ Len(karg) = 32)
       => (kres.tag = "Ok" /\ Len(kres.val) = 65)

\* C3: for every valid key k, from_bytes(to_bytes(k)), from_hex(to_hex(k))
\* and from_cb58(to_cb58(k)) give k back, and the key read back has the same
\* hex and CB58 text as k.
C3_RoundTrip ==
    kop \in { "reload_bytes", "reload_hex", "reload_cb58" }
    => /\ kres = Ok(key)
       /\ to_hex(kres.val) = to_hex(key)
       /\ to_cb58(kres.val) = to_cb58(key)

\* a key with 30 leading zero bytes has gone through CB58 text and back
C3_Witness ==
    /\ kop = "reload_cb58"
    /\ key = LimbsOfBytes(Scalar(1, 0))
    /\ kres.tag = "Ok"
    /\ Len(karg) > Len(CB58_ENCODE_PREFIX)

\* C9: whenever the random source fills the buffer, whatever 32 bytes it
\* delivers, generate returns a valid key.
C9_GenerateFailsOnlyWithoutRandomness ==
    (kop = "generate" /\ karg.tag = "Ok")
    => (kres.tag = "Ok" /\ key # NoKey
        /\ to_bytes(key) # Zeros(32) /\ LessThanBE(to_bytes(key), ORDER))

-----------------------------------------------------------------------------
(* Claims about load_cb58_keys (specification SpecLoad) *)

LoadDone == lin # None /\ lres # None /\ lin.d.utf8

HasRepeat(ls) == \E i, j \in 1..Len(ls) : i < j /\ ls[i] = ls[j]

\* the first line that repeats an earlier one
FirstRepeat(ls) ==
    CHOOSE j \in 1..Len(ls) :
        /\ \E i \in 1..(j - 1) : ls[i] = ls[j]
        /\ \A m \in 1..(j - 1) : \A i \in 1..(m - 1) : ls[i] # ls[m]

AllDecode(ls, n) == \A i \in 1..n : Decoded[ls[i]].tag = "Ok"

IsDuplicateKeyError(r) == r.tag = "Err" /\ r.msg = "key already added before"

C5_BadLineIsAnError ==
    (LoadDone /\ ~AllDecode(lines(lin.d.text), Len(lines(lin.d.text))))
    => lres.tag = "Err"

-----------------------------------------------------------------------------
(* Claims about the remote Signer (specification SpecSigner) *)

SigningOps == { "sign_message", "sign_transaction", "sign_typed_data" }

\* recovery id + chain_id * 2 + 35 in u64
Folded(recid, c) == AddU64(AddU64(AddU64(c, c).val, U64(35)).val, U64(recid)).val

\* the chain id sign_transaction binds: the transaction's, else the signer's
BoundChainId(tx, self) ==
    IF tx.chain_id.tag = "Some" THEN tx.chain_id.val ELSE SubSeq(self.chain_id, 1, 4)

\* C6: sign_typed_data never folds the chain id: whatever the payload and
\* the signer's chain id, the v of the signature it returns is the recovery
\* id + 27 of the external signer's result, and the one digest signed is the
\* payload's EIP-712 hash, with no EIP-191 prefix.
C6_TypedDataIsNotFolded ==
    (sop = "sign_typed_data" /\ sres.tag = "Ok")
    => /\ sres.val.v = U64(sarg.resp.recid + 27)
       /\ scalls = << [kind |-> "keccak256", eip191 |-> FALSE, of |-> sarg.payload.id] >>
       /\ sres.val.digest = scalls[1]
       /\ sres.val.cmk = signer.inner

\* typed data signed with recovery id 1 by a signer bound to chain 43112
C6_Witness ==
    /\ sop = "sign_typed_data"
    /\ sres.tag = "Ok"
    /\ signer.chain_id = U256_from_u64(U64(43112))
    /\ sarg.resp.recid = 1
    /\ sres.val.v = U64(28)

\* C7: only sign_transaction returns v = recovery id + chain_id * 2 + 35;
\* sign_message signs the EIP-191 hash and returns the un-folded v, as does
\* sign_typed_data; the fold is never applied twice.
C7_FoldOnlyForTransactions ==
    (sop \in SigningOps /\ sres.tag = "Ok")
    => /\ sop = "sign_transaction"
          => sres.val.v = Folded(sarg.resp.recid, BoundChainId(sarg.tx, signer))
       /\ sop = "sign_message"
          => (sres.val.v = U64(sarg.resp.recid + 27) /\ scalls[1].eip191)
       /\ sop = "sign_typed_data"
          => sres.val.v = U64(sarg.resp.recid + 27)

EncodingFails == sop = "sign_typed_data" /\ ~sarg.payload.encodable

\* C8: each signing operation issues exactly one external call; when that
\* call fails the operation returns the external failure, with its
\* retryability hint, and no signature; a typed-data encoding failure is a
\* non-retryable error returned before any external call.
C8_OneExternalCall ==
    sop \in SigningOps
    => /\ EncodingFails
          => (scalls = << >> /\ sres.tag = "Err" /\ ~sres.is_retryable)
       /\ ~EncodingFails => Len(scalls) = 1
       /\ (~EncodingFails /\ sarg.resp.tag = "Err")
          => sres = [tag |-> "Err", kind |-> "API",
                     is_retryable |-> sarg.resp.is_retryable]

\* C12: chain_id() returns the chain id most recently bound, by new or by
\* with_chain_id, without failing, whatever 256-bit value it is; address()
\* returns the address derived from the external public key at construction;
\* a rebind changes only the chain id, and nothing else changes the signer.
C12_ChainIdAndAddressFollowBinding ==
    [][/\ sop' = "new"
          => /\ signer'.chain_id = sarg'.chain_id
             /\ signer'.inner = sarg'.inner
             /\ signer'.address = [h160_of |-> sarg'.inner]
       /\ sop' = "with_chain_id"
          => /\ signer'.chain_id = U256_from_u64(sarg'.chain_id)
             /\ signer'.address = signer.address
             /\ signer'.inner = signer.inner
       /\ sop' \notin { "new", "with_chain_id" } => signer' = signer
       /\ sop' = "chain_id"
          => (sres'.tag = "Ok" /\ U256_from_u64(sres'.val) = signer.chain_id)
       /\ sop' = "address"
          => sres' = Ok([h160_of |-> signer.inner])]_vars

-----------------------------------------------------------------------------
(* Claims about formatting and logging (specification SpecLog) *)

\* C10: the text emitted by Display and Debug of a key and by the log
\* statements is the same for any two keys: it does not depend on the key.
C10_OutputIndependentOfKey == outA = outB

-----------------------------------------------------------------------------
(* Claims about the relay protocol (specification SpecRelay) *)

\* the protocol state of the request: the last operation applied to it
Stage ==
    CASE rop = "none" -> "None"
      [] rop \in { "build", "gas" } -> "Built"
      [] rop \in { "sign", "sign_to_request" } -> "Signed"
      [] rop = "encode_execute_call" -> "Encoded"

\* the signature and the request a submitted payload carries
PayloadSignature(p) == IF "json" \in DOMAIN p THEN p.json.signature ELSE p.signature

PayloadRequest(p) == IF "json" \in DOMAIN p THEN p.json.request ELSE p.request

\* C11: a relay attempt moves only forward, Built -> Signed -> Encoded: once
\* the request is signed its fields are not modified, it is not signed again
\* and it never is Built again; what is handed to submission carries the
\* signature produced over exactly the request fields that were built.
C11_RelayMovesOnlyForward ==
    [][/\ Stage \in { "Signed", "Encoded" }
          => /\ relay_tx' = relay_tx
             /\ rsigs' = rsigs
             /\ Stage' \in { "Signed", "Encoded" }
       /\ Stage = "Encoded" => Stage' = "Encoded"
       /\ (submitted = None /\ submitted' # None)
          => /\ PayloadSignature(submitted') = Last(rsigs')
             /\ PayloadSignature(submitted').digest = Tx_digest(relay_tx')
             /\ PayloadRequest(submitted') = ForwardRequest(relay_tx')]_vars

=============================================================================
